---------------------------- MODULE Spec2Model ----------------------------
(***************************************************************************)
(* todo-manage: the scheduled Lambda that flags overdue Todo items,        *)
(* creates carry-over successors and deletes flagged items in one          *)
(* DynamoDB transaction (app.ts, lambdaHandler and its helpers).           *)
(*                                                                         *)
(* Time is counted in whole days.  Every `new Date()` of the source is a   *)
(* separate reading of the clock; the readings of one handler call are     *)
(* nondecreasing and at most MaxDrift apart.  Date.setDate(getDate() +- n) *)
(* is n days of arithmetic on the instant (the Lambda runs in UTC).        *)
(***************************************************************************)
EXTENDS Integers, Sequences, FiniteSets, TLC

\* ------------------------------------------------------------------ bounds
MaxTodos   == 2   \* records in the table at the start
MaxContent == 2   \* sub-items of a comment (table of SpecBatch)
MaxUuids   == 2   \* ids uuidv4() can hand out
MaxDrift   == 1   \* days the clock may advance inside one handler step
MaxTicks   == 1   \* days the clock may advance in all
MaxInvoke  == 2   \* invocations of the handler (they may overlap)
MaxExtern  == 1   \* items written by the upstream producer
Now0       == 10  \* the clock at the start

\* --------------------------------------------------------- program constants
flagDeleteDate == 7
resetAddDate   == 3
dataDeleteDate == 7

\* `undefined` of an optional chain (item.Update?.Key?.id on a non-Update)
Undefined == 0
\* getTime() of an Invalid Date
NaN == 0 - 1

Active  == 0
Expired == 1

Runs    == 1 .. MaxInvoke
UserIds == 1 .. MaxTodos
UuidPool == (MaxTodos + 1) .. (MaxTodos + MaxUuids)
Ids     == UserIds \cup UuidPool
MaxNow  == Now0 + MaxTicks

VARIABLES
  legacy,       \* the per-record handler of app.js: its position and locals
  store,        \* the table: id -> item, for the ids present
  now,          \* the clock
  issued,       \* ids uuidv4() has handed out
  pc,           \* per invocation: position in lambdaHandler
  scanResult,   \* per invocation: what documentClient.scan gave
  snapshot,     \* per invocation: the value of getTodoItems (todoItems)
  clk,          \* per invocation: the clock readings of createTransactItems
  transactItems,\* per invocation: the value of createTransactItems
  statusCode,   \* per invocation: the returned statusCode, 0 while running
  writeCalls,   \* per invocation: calls of documentClient.transactWrite
  externs       \* items written by the upstream producer so far

vars == <<legacy, store, now, issued, pc, scanResult, snapshot, clk, transactItems,
          statusCode, writeCalls, externs>>

\* ------------------------------------------------------------------- data
Labels == <<"a", "b", "c", "d">>

\* Content[] of length n whose i-th entry has the given completion flag
ContentList(flags) ==
  [i \in 1 .. Len(flags) |-> [complete |-> flags[i], content |-> Labels[i]]]

FlagSeqs(n) == UNION {[1 .. k -> BOOLEAN] : k \in 0 .. n}

Comment(list) == [commentType |-> "list", freeComment |-> "", contentList |-> list]

Todo(id, status, title, comment, targetAt, carryOver, createdAt, updatedAt, owner) ==
  [id |-> id, status |-> status, title |-> title, comment |-> comment,
   url |-> "url", targetAt |-> targetAt, carryOver |-> carryOver,
   createdAt |-> createdAt, updatedAt |-> updatedAt, updatedUser |-> "user",
   owner |-> owner]

\* Date.getTime() of new Date(iso)
getTime(iso) == iso

\* a.getTime() - b.getTime() > 0, false when a is an Invalid Date
After(a, b) == a # NaN /\ a - b > 0


\* --------------------------------------------------- transaction items
\* item.Update?.Key?.id
UpdateKeyId(item) == IF item.op = "Update" THEN item.Key ELSE Undefined

\* item.Delete?.Key?.id
DeleteKeyId(item) == IF item.op = "Delete" THEN item.Key ELSE Undefined

\* array.includes(x)
Includes(array, x) == \E i \in 1 .. Len(array) : array[i] = x

\* array.map(f)
Map(array, f(_)) == [i \in 1 .. Len(array) |-> f(array[i])]

\* Update: set #status = :delete, with :delete = 1
createTransactItemForStatusUpdate(todo) ==
  [op |-> "Update", Key |-> todo.id, status |-> Expired]

\* createTransactItemForNewDedlineTodo without date.setDate: the due date is
\* left at the time of the run
NewDedlineTodoNotReset(todo, carryOverComment, date, uuid) ==
  [op   |-> "Put",
   Item |-> [id |-> uuid, status |-> todo.status, title |-> todo.title,
             comment |-> carryOverComment, url |-> todo.url,
             targetAt |-> date, carryOver |-> todo.carryOver,
             createdAt |-> todo.createdAt, updatedAt |-> date,
             updatedUser |-> todo.updatedUser, owner |-> "null"],
   ConditionExpression |-> "attribute_not_exists(#id)"]

\* createTransactItemForNewDedlineTodo without its ConditionExpression: a
\* plain Put, which replaces whatever item has the id
NewDedlineTodoUnconditional(todo, carryOverComment, date, uuid) ==
  [op   |-> "Put",
   Item |-> [id |-> uuid, status |-> todo.status, title |-> todo.title,
             comment |-> carryOverComment, url |-> todo.url,
             targetAt |-> date + resetAddDate, carryOver |-> todo.carryOver,
             createdAt |-> todo.createdAt, updatedAt |-> date,
             updatedUser |-> todo.updatedUser, owner |-> "null"],
   ConditionExpression |-> ""]

\* Put of the successor, conditioned on attribute_not_exists(#id).
\* date is the reading of `new Date()`, uuid the value of uuidv4().
createTransactItemForNewDedlineTodo(todo, carryOverComment, date, uuid) ==
  LET updateiSOString == date
      targetDate      == date + resetAddDate
  IN  [op   |-> "Put",
       Item |-> [id |-> uuid, status |-> todo.status, title |-> todo.title,
                 comment |-> carryOverComment, url |-> todo.url,
                 targetAt |-> targetDate, carryOver |-> todo.carryOver,
                 createdAt |-> todo.createdAt, updatedAt |-> updateiSOString,
                 updatedUser |-> todo.updatedUser, owner |-> "null"],
       ConditionExpression |-> "attribute_not_exists(#id)"]

\* updateTodo.comment with the complete entries of contentList filtered out
CarryOverComment(updateTodo) ==
  [commentType |-> updateTodo.comment.commentType,
   freeComment |-> updateTodo.comment.freeComment,
   contentList |-> SelectSeq(updateTodo.comment.contentList,
                             LAMBDA content : content.complete = FALSE)]

\* the for loop without its carryOver check: every record with an incomplete
\* sub-item gets a successor
RECURSIVE ExpiredLoopAnyCarryOver(_, _, _, _)
ExpiredLoopAnyCarryOver(updateTodoItems, n, reads, uuids) ==
  IF updateTodoItems = <<>> THEN <<>>
  ELSE
    LET updateTodo       == Head(updateTodoItems)
        update           == createTransactItemForStatusUpdate(updateTodo)
        carryOverComment == CarryOverComment(updateTodo)
    IN  IF Len(carryOverComment.contentList) = 0
        THEN <<update>>
             \o ExpiredLoopAnyCarryOver(Tail(updateTodoItems), n, reads, uuids)
        ELSE <<update,
               createTransactItemForNewDedlineTodo(
                 updateTodo, carryOverComment, reads[n + 2], uuids[n + 1])>>
             \o ExpiredLoopAnyCarryOver(Tail(updateTodoItems), n + 1, reads, uuids)

\* The for loop of createExpiredTransactItems over updateTodoItems.  n counts
\* the Puts pushed so far: the next Put takes reading n + 2 of the clock
\* (reading 1 is deleteLimit's) and uuid n + 1.
RECURSIVE ExpiredLoop(_, _, _, _)
ExpiredLoop(updateTodoItems, n, reads, uuids) ==
  IF updateTodoItems = <<>> THEN <<>>
  ELSE
    LET updateTodo       == Head(updateTodoItems)
        update           == createTransactItemForStatusUpdate(updateTodo)
        carryOverComment == CarryOverComment(updateTodo)
    IN  IF ~updateTodo.carryOver
        THEN <<update>> \o ExpiredLoop(Tail(updateTodoItems), n, reads, uuids)
        ELSE IF Len(carryOverComment.contentList) = 0
        THEN <<update>> \o ExpiredLoop(Tail(updateTodoItems), n, reads, uuids)
        ELSE <<update,
               createTransactItemForNewDedlineTodo(
                 updateTodo, carryOverComment, reads[n + 2], uuids[n + 1])>>
             \o ExpiredLoop(Tail(updateTodoItems), n + 1, reads, uuids)

\* the filter without its status check: flagged records are selected too
UpdateTodoItemsAnyStatus(todoItems, date) ==
  LET deleteLimit == date - flagDeleteDate
  IN  SelectSeq(todoItems,
                LAMBDA todo : ~After(getTime(todo.targetAt), deleteLimit))

\* todoItems.filter of createExpiredTransactItems, deleteLimit = date - 7 days
UpdateTodoItems(todoItems, date) ==
  LET deleteLimit == date - flagDeleteDate
  IN  SelectSeq(todoItems,
                LAMBDA todo : /\ ~(todo.status # Active)
                              /\ ~After(getTime(todo.targetAt), deleteLimit))

createExpiredTransactItems(todoItems, reads, uuids) ==
  ExpiredLoop(UpdateTodoItems(todoItems, reads[1]), 0, reads, uuids)

\* createDeleteTransactItems without deleteIds: only flagged records are
\* candidates
createDeleteTransactItemsFlaggedOnly(todoItems, deleteIds, date) ==
  LET deleteLimit == date - dataDeleteDate
      kept == SelectSeq(todoItems,
                LAMBDA todo :
                  /\ ~(todo.status # Expired)
                  /\ ~After(getTime(todo.targetAt), deleteLimit))
  IN  Map(kept, LAMBDA todo : [op |-> "Delete", Key |-> todo.id])

\* createDeleteTransactItems without the status test of flagged records:
\* only the ids of deleteIds are candidates
createDeleteTransactItemsUpdateIdsOnly(todoItems, deleteIds, date) ==
  LET deleteLimit == date - dataDeleteDate
      kept == SelectSeq(todoItems,
                LAMBDA todo :
                  /\ Includes(deleteIds, todo.id)
                  /\ ~After(getTime(todo.targetAt), deleteLimit))
  IN  Map(kept, LAMBDA todo : [op |-> "Delete", Key |-> todo.id])

\* date is the reading of `new Date()` that deleteLimit is computed from
createDeleteTransactItems(todoItems, deleteIds, date) ==
  LET deleteLimit == date - dataDeleteDate
      kept == SelectSeq(todoItems,
                LAMBDA todo :
                  /\ ~(todo.status # Expired /\ ~Includes(deleteIds, todo.id))
                  /\ ~After(getTime(todo.targetAt), deleteLimit))
  IN  Map(kept, LAMBDA todo : [op |-> "Delete", Key |-> todo.id])

\* number of Puts of a list of transaction items
NumPuts(items) == Len(SelectSeq(items, LAMBDA item : item.op = "Put"))

\* createTransactItems without the merge: the two lists concatenated
createTransactItemsUnmerged(todoItems, reads, uuids) ==
  LET epiredTransactItems == createExpiredTransactItems(todoItems, reads, uuids)
      updateIds == Map(SelectSeq(epiredTransactItems,
                                 LAMBDA item : item.op = "Update"),
                       UpdateKeyId)
      deleteTransactItems ==
        createDeleteTransactItems(todoItems, updateIds,
                                  reads[NumPuts(epiredTransactItems) + 2])
  IN  epiredTransactItems \o deleteTransactItems

\* createTransactItems with the test of the merge inverted: the duplicated
\* updates are the ones kept
createTransactItemsInverted(todoItems, reads, uuids) ==
  LET epiredTransactItems == createExpiredTransactItems(todoItems, reads, uuids)
      updateIds == Map(SelectSeq(epiredTransactItems,
                                 LAMBDA item : item.op = "Update"),
                       UpdateKeyId)
      deleteTransactItems ==
        createDeleteTransactItems(todoItems, updateIds,
                                  reads[NumPuts(epiredTransactItems) + 2])
      duplicateIds == Map(SelectSeq(deleteTransactItems,
                                    LAMBDA item : Includes(updateIds, DeleteKeyId(item))),
                          DeleteKeyId)
  IN  SelectSeq(epiredTransactItems,
                LAMBDA item : Includes(duplicateIds, UpdateKeyId(item)))
      \o deleteTransactItems

\* createTransactItems whose merge keeps the updates only: the Put of a
\* successor is dropped with the rest
createTransactItemsUpdatesOnly(todoItems, reads, uuids) ==
  LET epiredTransactItems == createExpiredTransactItems(todoItems, reads, uuids)
      updateIds == Map(SelectSeq(epiredTransactItems,
                                 LAMBDA item : item.op = "Update"),
                       UpdateKeyId)
      deleteTransactItems ==
        createDeleteTransactItems(todoItems, updateIds,
                                  reads[NumPuts(epiredTransactItems) + 2])
      duplicateIds == Map(SelectSeq(deleteTransactItems,
                                    LAMBDA item : Includes(updateIds, DeleteKeyId(item))),
                          DeleteKeyId)
  IN  SelectSeq(epiredTransactItems,
                LAMBDA item : /\ item.op = "Update"
                              /\ ~Includes(duplicateIds, UpdateKeyId(item)))
      \o deleteTransactItems

\* createTransactItems with the concat the other way round: the deletes
\* come first
createTransactItemsDeletesFirst(todoItems, reads, uuids) ==
  LET epiredTransactItems == createExpiredTransactItems(todoItems, reads, uuids)
      updateIds == Map(SelectSeq(epiredTransactItems,
                                 LAMBDA item : item.op = "Update"),
                       UpdateKeyId)
      deleteTransactItems ==
        createDeleteTransactItems(todoItems, updateIds,
                                  reads[NumPuts(epiredTransactItems) + 2])
      duplicateIds == Map(SelectSeq(deleteTransactItems,
                                    LAMBDA item : Includes(updateIds, DeleteKeyId(item))),
                          DeleteKeyId)
  IN  deleteTransactItems
      \o SelectSeq(epiredTransactItems,
                   LAMBDA item : ~Includes(duplicateIds, UpdateKeyId(item)))

\* createTransactItems without the concat: the deletes are left out
createTransactItemsNoDeletes(todoItems, reads, uuids) ==
  LET epiredTransactItems == createExpiredTransactItems(todoItems, reads, uuids)
      updateIds == Map(SelectSeq(epiredTransactItems,
                                 LAMBDA item : item.op = "Update"),
                       UpdateKeyId)
      deleteTransactItems ==
        createDeleteTransactItems(todoItems, updateIds,
                                  reads[NumPuts(epiredTransactItems) + 2])
      duplicateIds == Map(SelectSeq(deleteTransactItems,
                                    LAMBDA item : Includes(updateIds, DeleteKeyId(item))),
                          DeleteKeyId)
  IN  SelectSeq(epiredTransactItems,
                LAMBDA item : ~Includes(duplicateIds, UpdateKeyId(item)))

\* reads: the readings of the clock in call order (deleteLimit of
\* createExpiredTransactItems, one per Put, deleteLimit of
\* createDeleteTransactItems); uuids: the values of uuidv4() in call order.
createTransactItems(todoItems, reads, uuids) ==
  LET epiredTransactItems == createExpiredTransactItems(todoItems, reads, uuids)
      updateIds == Map(SelectSeq(epiredTransactItems,
                                 LAMBDA item : item.op = "Update"),
                       UpdateKeyId)
      deleteTransactItems ==
        createDeleteTransactItems(todoItems, updateIds,
                                  reads[NumPuts(epiredTransactItems) + 2])
      duplicateIds == Map(SelectSeq(deleteTransactItems,
                                    LAMBDA item : Includes(updateIds, DeleteKeyId(item))),
                          DeleteKeyId)
  IN  SelectSeq(epiredTransactItems,
                LAMBDA item : ~Includes(duplicateIds, UpdateKeyId(item)))
      \o deleteTransactItems


\* ------------------------------------------------------------ the table
\* The items of the table as documentClient.scan returns them (by id).
RECURSIVE ScanFrom(_, _)
ScanFrom(table, id) ==
  IF id > MaxTodos + MaxUuids THEN <<>>
  ELSE (IF id \in DOMAIN table THEN <<table[id]>> ELSE <<>>)
       \o ScanFrom(table, id + 1)

ScanItems(table) == ScanFrom(table, 1)

CustomError(e) == [error |-> e, Items |-> <<>>]

IsCustomError(v) == v.error # ""

\* getTodoItems taking a result without Items for an empty table
getTodoItemsNoDataAsEmpty(outcome, table) ==
  IF outcome = "throw" THEN CustomError("getError")
  ELSE IF outcome = "undefined" THEN [error |-> "", Items |-> <<>>]
  ELSE [error |-> "", Items |-> ScanItems(table)]

\* getTodoItems over the outcome of documentClient.scan: "throw" (the promise
\* rejects), "undefined" (no Items field) or "items"
getTodoItems(outcome, table) ==
  IF outcome = "throw" THEN CustomError("getError")
  ELSE IF outcome = "undefined" THEN CustomError("noData")
  ELSE [error |-> "", Items |-> ScanItems(table)]

\* The item an Update writes when its key is absent: DynamoDB creates it with
\* the key and the attributes the expression sets; the rest is undefined.
UpsertedItem(id) ==
  Todo(id, Expired, Undefined, Comment(<<>>), NaN, FALSE, NaN, NaN, "null")

\* One write of a transaction applied to the table.
ApplyItem(table, item) ==
  IF item.op = "Update"
  THEN IF item.Key \in DOMAIN table
       THEN [table EXCEPT ![item.Key].status = item.status]
       ELSE table @@ (item.Key :> UpsertedItem(item.Key))
  ELSE IF item.op = "Put"
  THEN [id \in DOMAIN table \cup {item.Item.id} |->
          IF id = item.Item.id THEN item.Item ELSE table[id]]
  ELSE [id \in DOMAIN table \ {item.Key} |-> table[id]]

RECURSIVE ApplyItems(_, _)
ApplyItems(table, items) ==
  IF items = <<>> THEN table
  ELSE ApplyItems(ApplyItem(table, Head(items)), Tail(items))

\* The item a write addresses
TargetId(item) == IF item.op = "Put" THEN item.Item.id ELSE item.Key

\* transactWrite accepts the request: every condition holds (the Put's
\* attribute_not_exists(#id)) and no two writes address the same item.
TransactOk(table, items) ==
  /\ \A i \in 1 .. Len(items) :
       (items[i].op = "Put"
          /\ items[i].ConditionExpression = "attribute_not_exists(#id)")
         => items[i].Item.id \notin DOMAIN table
  /\ \A i, j \in 1 .. Len(items) :
       i # j => TargetId(items[i]) # TargetId(items[j])

\* ------------------------------------------------- clock and uuidv4
Min(a, b) == IF a < b THEN a ELSE b

\* n nondecreasing readings of the clock starting at t
ClockReads(t, n) ==
  {reads \in [1 .. n -> t .. Min(t + MaxDrift, MaxNow)] :
     /\ reads[1] = t
     /\ \A i \in 1 .. n - 1 : reads[i] <= reads[i + 1]}

\* The ids uuidv4() has not handed out, in the order it will
RECURSIVE FreshFrom(_, _)
FreshFrom(used, id) ==
  IF id > MaxTodos + MaxUuids THEN <<>>
  ELSE (IF id \in used THEN <<>> ELSE <<id>>) \o FreshFrom(used, id + 1)

FreshUuids(used) == FreshFrom(used, MaxTodos + 1)

\* number of Puts createExpiredTransactItems pushes for a snapshot
NumNewTodos(items, date) ==
  Len(SelectSeq(UpdateTodoItems(items, date),
                LAMBDA todo : /\ todo.carryOver
                              /\ Len(CarryOverComment(todo).contentList) # 0))

\* ----------------------------------------------------------- the handler
NoSnapshot == [error |-> "", Items |-> <<>>]

\* getTodoItems: lines 84 and 123-139
Scan(r) ==
  /\ pc[r] = "idle"
  /\ \A q \in Runs : q < r => pc[q] # "idle"
  /\ \E outcome \in {"items", "undefined", "throw"} :
       /\ scanResult' = [scanResult EXCEPT ![r] = outcome]
       /\ snapshot' = [snapshot EXCEPT ![r] = getTodoItems(outcome, store)]
  /\ pc' = [pc EXCEPT ![r] = "scanned"]
  /\ UNCHANGED <<legacy, store, now, issued, clk, transactItems, statusCode,
                 writeCalls, externs>>

\* the CustomError return: lines 86-90
BuildFailed(r) ==
  /\ pc[r] = "scanned"
  /\ IsCustomError(snapshot[r])
  /\ statusCode' = [statusCode EXCEPT ![r] = 400]
  /\ pc' = [pc EXCEPT ![r] = "done"]
  /\ UNCHANGED <<legacy, store, now, issued, scanResult, snapshot, clk,
                 transactItems, writeCalls, externs>>

\* the handler without its empty check: the transaction is submitted
\* whatever its length
BuildAlwaysWrites(r) ==
  /\ pc[r] = "scanned"
  /\ ~IsCustomError(snapshot[r])
  /\ \E reads \in ClockReads(now, Len(snapshot[r].Items) + 2) :
       LET todoItems == snapshot[r].Items
           uuids     == FreshUuids(issued)
           n         == NumNewTodos(todoItems, reads[1])
           items     == createTransactItems(todoItems, reads, uuids)
       IN  /\ n <= Len(uuids)
           /\ \A i \in n + 2 .. Len(reads) : reads[i] = reads[n + 2]
           /\ transactItems' = [transactItems EXCEPT ![r] = items]
           /\ clk' = [clk EXCEPT ![r] = SubSeq(reads, 1, n + 2)]
           /\ now' = reads[n + 2]
           /\ issued' = issued \cup {uuids[i] : i \in 1 .. n}
           /\ statusCode' = statusCode
           /\ pc' = [pc EXCEPT ![r] = "write"]
  /\ UNCHANGED <<legacy, store, scanResult, snapshot, writeCalls, externs>>

\* createTransactItems and the empty check: lines 92-99
Build(r) ==
  /\ pc[r] = "scanned"
  /\ ~IsCustomError(snapshot[r])
  /\ \E reads \in ClockReads(now, Len(snapshot[r].Items) + 2) :
       LET todoItems == snapshot[r].Items
           uuids     == FreshUuids(issued)
           n         == NumNewTodos(todoItems, reads[1])
           items     == createTransactItems(todoItems, reads, uuids)
       IN  /\ n <= Len(uuids)
           /\ \A i \in n + 2 .. Len(reads) : reads[i] = reads[n + 2]
           /\ transactItems' = [transactItems EXCEPT ![r] = items]
           /\ clk' = [clk EXCEPT ![r] = SubSeq(reads, 1, n + 2)]
           /\ now' = reads[n + 2]
           /\ issued' = issued \cup {uuids[i] : i \in 1 .. n}
           /\ IF Len(items) = 0
              THEN /\ statusCode' = [statusCode EXCEPT ![r] = 200]
                   /\ pc' = [pc EXCEPT ![r] = "done"]
              ELSE /\ statusCode' = statusCode
                   /\ pc' = [pc EXCEPT ![r] = "write"]
  /\ UNCHANGED <<legacy, store, scanResult, snapshot, writeCalls, externs>>

\* the handler returning the failure code after a transaction that went
\* through
WriteOkReports400(r) ==
  /\ pc[r] = "write"
  /\ TransactOk(store, transactItems[r])
  /\ writeCalls' = [writeCalls EXCEPT ![r] = @ + 1]
  /\ store' = ApplyItems(store, transactItems[r])
  /\ statusCode' = [statusCode EXCEPT ![r] = 400]
  /\ pc' = [pc EXCEPT ![r] = "done"]
  /\ UNCHANGED <<legacy, now, issued, scanResult, snapshot, clk, transactItems, externs>>

\* transactWrite resolves: lines 101-106 and 113-115
WriteOk(r) ==
  /\ pc[r] = "write"
  /\ TransactOk(store, transactItems[r])
  /\ writeCalls' = [writeCalls EXCEPT ![r] = @ + 1]
  /\ store' = ApplyItems(store, transactItems[r])
  /\ statusCode' = [statusCode EXCEPT ![r] = 200]
  /\ pc' = [pc EXCEPT ![r] = "done"]
  /\ UNCHANGED <<legacy, now, issued, scanResult, snapshot, clk, transactItems, externs>>

\* the catch block submitting the transaction again instead of returning
WriteFailedRetry(r) ==
  /\ pc[r] = "write"
  /\ writeCalls[r] <= 1
  /\ writeCalls' = [writeCalls EXCEPT ![r] = @ + 1]
  /\ UNCHANGED <<legacy, store, now, issued, pc, scanResult, snapshot, clk,
                 transactItems, statusCode, externs>>

\* transactWrite rejects (a cancelled transaction or a transport error), the
\* table untouched: lines 101-112
WriteFailed(r) ==
  /\ pc[r] = "write"
  /\ writeCalls' = [writeCalls EXCEPT ![r] = @ + 1]
  /\ statusCode' = [statusCode EXCEPT ![r] = 400]
  /\ pc' = [pc EXCEPT ![r] = "done"]
  /\ UNCHANGED <<legacy, store, now, issued, scanResult, snapshot, clk, transactItems,
                 externs>>

\* ------------------------------------------------------- the environment
\* a day passes
Tick ==
  /\ now < MaxNow
  /\ now' = now + 1
  /\ UNCHANGED <<legacy, store, issued, pc, scanResult, snapshot, clk, transactItems,
                 statusCode, writeCalls, externs>>

\* ids of the Puts of the transactions waiting to be submitted
PendingPutIds ==
  UNION {{transactItems[r][i].Item.id :
            i \in {j \in 1 .. Len(transactItems[r]) : transactItems[r][j].op = "Put"}} :
         r \in {q \in Runs : pc[q] = "write"}}

\* The upstream producer (the Share Todo client) writes a new item under an
\* id of its own making; nothing keeps that id apart from the id a pending
\* Put carries.
ExternalPut ==
  /\ externs < MaxExtern
  /\ \E id \in ((UuidPool \ issued) \cup PendingPutIds) \ DOMAIN store :
       /\ store' = store @@ (id :> Todo(id, Active, id, Comment(<<>>), now + 1,
                                         FALSE, now, now, "owner"))
       /\ issued' = issued \cup {id}
  /\ externs' = externs + 1
  /\ UNCHANGED <<legacy, now, pc, scanResult, snapshot, clk, transactItems,
                 statusCode, writeCalls>>

\* ------------------------------------- the per-record handler of app.js
\* legacy.pc: "idle", "expiring" (in the for loop of expiredTodo), "expired"
\* (expiredTodo has returned), "deleting" (in the for loop of deleteTodo),
\* "done" (lambdaHandler has returned)
LegacyIdle ==
  [pc |-> "idle", updateTodoList |-> <<>>, k |-> 0, updateiSOString |-> 0,
   deleteTargetIds |-> <<>>, error |-> FALSE, statusCode |-> 0]

\* items in the order of the index SortByTargetAt (ties in id order)
RECURSIVE SortByTargetAt(_)
SortByTargetAt(items) ==
  IF items = <<>> THEN <<>>
  ELSE LET rest == SortByTargetAt(Tail(items))
           todo == Head(items)
       IN  SelectSeq(rest, LAMBDA other : other.targetAt < todo.targetAt)
           \o <<todo>>
           \o SelectSeq(rest, LAMBDA other : ~(other.targetAt < todo.targetAt))

\* query of createGetParams with :value = value
Query(table, value) ==
  SortByTargetAt(SelectSeq(ScanItems(table), LAMBDA todo : todo.status = value))

\* the transaction expiredTodo builds for updateTodo
LegacyTransactItems(updateTodo, date, updateiSOString, uuid) ==
  LET carryOverComment == CarryOverComment(updateTodo)
      update == [op |-> "Update", Key |-> updateTodo.id, status |-> Expired]
      put == [op   |-> "Put",
              Item |-> [id |-> uuid, status |-> updateTodo.status,
                        title |-> updateTodo.title,
                        comment |-> carryOverComment, url |-> updateTodo.url,
                        targetAt |-> date + resetAddDate,
                        carryOver |-> updateTodo.carryOver,
                        createdAt |-> updateTodo.createdAt,
                        updatedAt |-> updateiSOString,
                        updatedUser |-> updateTodo.updatedUser,
                        owner |-> "null"],
              ConditionExpression |-> "attribute_not_exists(#id)"]
  IN  IF Len(carryOverComment.contentList) > 0 THEN <<update, put>>
      ELSE <<update>>

\* expiredTodo up to its for loop: lines 29-51 and the catch of line 120
expiredTodoQuery ==
  /\ legacy.pc = "idle"
  /\ \E resolved \in BOOLEAN :
       IF resolved
       THEN LET data           == Query(store, Active)
                deleteLimit    == now - flagDeleteDate
                updateTodoList ==
                  SelectSeq(data, LAMBDA currentValue :
                                    currentValue.targetAt - deleteLimit < 0)
            IN  legacy' = [legacy EXCEPT
                             !.pc = IF updateTodoList = <<>> THEN "expired"
                                    ELSE "expiring",
                             !.updateTodoList = updateTodoList,
                             !.updateiSOString = now]
       ELSE legacy' = [legacy EXCEPT !.pc = "expired", !.error = TRUE]
  /\ UNCHANGED <<store, now, issued, pc, scanResult, snapshot, clk,
                 transactItems, statusCode, writeCalls, externs>>

\* one pass of the for loop of expiredTodo: lines 53-118; a rejected
\* transactWrite leaves the loop through the catch of line 120
expiredTodoStep ==
  /\ legacy.pc = "expiring"
  /\ LET updateTodo == legacy.updateTodoList[legacy.k + 1]
         uuids      == FreshUuids(issued)
         passed     == [legacy EXCEPT
                          !.k = @ + 1,
                          !.pc = IF legacy.k + 1 = Len(legacy.updateTodoList)
                                 THEN "expired" ELSE "expiring"]
     IN  IF updateTodo.carryOver
         THEN /\ Len(uuids) > 0
              /\ LET items == LegacyTransactItems(updateTodo, now,
                                                  legacy.updateiSOString, uuids[1])
                 IN  /\ issued' = IF Len(items) > 1 THEN issued \cup {uuids[1]}
                                  ELSE issued
                     /\ \/ /\ TransactOk(store, items)
                           /\ store' = ApplyItems(store, items)
                           /\ legacy' = passed
                        \/ /\ store' = store
                           /\ legacy' = [legacy EXCEPT !.pc = "expired",
                                                       !.error = TRUE]
         ELSE /\ legacy' = passed
              /\ UNCHANGED <<store, issued>>
  /\ UNCHANGED <<now, pc, scanResult, snapshot, clk, transactItems, statusCode,
                 writeCalls, externs>>

\* the return of lambdaHandler: lines 19-21
LegacyReturn == [legacy EXCEPT !.pc = "done", !.statusCode = 200]

\* deleteTodo up to its for loop: lines 129-156 and the catch of line 167
deleteTodoQuery ==
  /\ legacy.pc = "expired"
  /\ \E resolved \in BOOLEAN :
       IF resolved
       THEN LET todoList    == Query(store, Expired)
                deleteLimit == now - dataDeleteDate
                deleteTargetIds ==
                  Map(SelectSeq(todoList, LAMBDA currentValue :
                                  currentValue.updatedAt - deleteLimit < 0),
                      LAMBDA currentValue : currentValue.id)
            IN  IF Len(todoList) = 0 \/ deleteTargetIds = <<>>
                THEN legacy' = LegacyReturn
                ELSE legacy' = [legacy EXCEPT !.pc = "deleting",
                                              !.deleteTargetIds = deleteTargetIds]
       ELSE legacy' = LegacyReturn
  /\ UNCHANGED <<store, now, issued, pc, scanResult, snapshot, clk,
                 transactItems, statusCode, writeCalls, externs>>

\* one pass of the for loop of deleteTodo: lines 158-166
deleteTodoStep ==
  /\ legacy.pc = "deleting"
  /\ LET deleteTargetId == Head(legacy.deleteTargetIds)
         rest           == Tail(legacy.deleteTargetIds)
     IN  \/ /\ store' = [id \in DOMAIN store \ {deleteTargetId} |-> store[id]]
            /\ legacy' = IF rest = <<>> THEN LegacyReturn
                         ELSE [legacy EXCEPT !.deleteTargetIds = rest]
         \/ /\ store' = store
            /\ legacy' = LegacyReturn
  /\ UNCHANGED <<now, issued, pc, scanResult, snapshot, clk, transactItems,
                 statusCode, writeCalls, externs>>

\* ------------------------------------------------------- specifications
\* lens[1] + ... + lens[k]
RECURSIVE SumTo(_, _)
SumTo(lens, k) == IF k = 0 THEN 0 ELSE lens[k] + SumTo(lens, k - 1)

\* The table of the items with ids 1 .. n, each titled by its id: rows gives
\* status, targetAt, updatedAt and carryOver of each, lens the length of
\* each contentList and bits the completion flags of all sub-items in a row.
TableOf(rows, lens, bits) ==
  [id \in DOMAIN rows |->
     Todo(id, rows[id][1], id,
          Comment(ContentList([j \in 1 .. lens[id] |->
                                 bits[SumTo(lens, id - 1) + j]])),
          rows[id][2], rows[id][4], rows[id][3], rows[id][3], "owner")]

\* store is a table of at most MaxTodos items with at most MaxContent
\* sub-items in all.
InitTable(statuses, targetAts, updatedAts, carryOvers) ==
  \E n \in 0 .. MaxTodos :
    \E rows \in [1 .. n -> statuses \X targetAts \X updatedAts \X carryOvers] :
      \E lens \in [1 .. n -> 0 .. MaxContent] :
        /\ SumTo(lens, n) <= MaxContent
        /\ \E bits \in [1 .. SumTo(lens, n) -> BOOLEAN] :
             store = TableOf(rows, lens, bits)

\* store is a table of at most MaxTodos items, each with one incomplete
\* sub-item.
InitPlainTable(statuses, targetAts, updatedAts, carryOvers) ==
  \E n \in 0 .. MaxTodos :
    \E rows \in [1 .. n -> statuses \X targetAts \X updatedAts \X carryOvers] :
      store = TableOf(rows, [id \in 1 .. n |-> 1], [j \in 1 .. n |-> FALSE])

InitRest ==
  /\ now = Now0
  /\ legacy = LegacyIdle
  /\ issued = DOMAIN store
  /\ pc = [r \in Runs |-> "idle"]
  /\ scanResult = [r \in Runs |-> "none"]
  /\ snapshot = [r \in Runs |-> NoSnapshot]
  /\ clk = [r \in Runs |-> <<>>]
  /\ transactItems = [r \in Runs |-> <<>>]
  /\ statusCode = [r \in Runs |-> 0]
  /\ writeCalls = [r \in Runs |-> 0]
  /\ externs = 0

\* Invocations of the handler, overlapping or not, while days pass and the
\* producer writes.
Init ==
  /\ InitPlainTable({Active, Expired},
                           {Now0 - flagDeleteDate, Now0 - flagDeleteDate + 1},
                           {Now0 - dataDeleteDate - 1}, BOOLEAN)
  /\ InitRest

Next ==
  \/ \E r \in Runs : Scan(r)
  \/ \E r \in Runs : BuildFailed(r)
  \/ \E r \in Runs : Build(r)
  \/ \E r \in Runs : WriteOk(r)
  \/ \E r \in Runs : WriteFailed(r)
  \/ Tick
  \/ ExternalPut

Spec == Init /\ [][Next]_vars

\* One invocation from its scan to its return, while days pass and the
\* producer writes.
NextRun ==
  \/ Scan(1)
  \/ BuildFailed(1)
  \/ Build(1)
  \/ WriteOk(1)
  \/ WriteFailed(1)
  \/ Tick
  \/ ExternalPut

SpecRun == Init /\ [][NextRun]_vars

\* One invocation up to its transaction, over the tables of items due seven
\* or six days before the start.
InitBatch ==
  /\ InitTable({Active, Expired},
                      {Now0 - flagDeleteDate, Now0 - flagDeleteDate + 1},
                      {Now0 - dataDeleteDate - 1}, BOOLEAN)
  /\ InitRest

NextBatch ==
  \/ Scan(1)
  \/ BuildFailed(1)
  \/ Build(1)

SpecBatch == InitBatch /\ [][NextBatch]_vars

\* The same over the tables of items due ten, seven or six days before the
\* start and last updated eight days or one day before it.
InitWide ==
  /\ InitTable({Active, Expired},
                      {Now0 - 10, Now0 - flagDeleteDate,
                       Now0 - flagDeleteDate + 1},
                      {Now0 - dataDeleteDate - 1, Now0 - 1}, BOOLEAN)
  /\ InitRest

SpecWide == InitWide /\ [][NextBatch]_vars

\* Invocations one after the other: the scheduler starts an invocation only
\* when none is between its scan and its return.
SerialScan(r) ==
  /\ \A q \in Runs \ {r} : pc[q] \in {"idle", "done"}
  /\ Scan(r)

NextSerial ==
  \/ \E r \in Runs : SerialScan(r)
  \/ \E r \in Runs : BuildFailed(r)
  \/ \E r \in Runs : Build(r)
  \/ \E r \in Runs : WriteOk(r)
  \/ \E r \in Runs : WriteFailed(r)
  \/ Tick

SpecSerial == Init /\ [][NextSerial]_vars

\* The schedule starts the handler again after it has returned. The ids the
\* returned invocation drew for Puts that never reached the table are as
\* good as new ones and go back to the pool.
Reinvoke(r) ==
  /\ pc[r] = "done"
  /\ pc' = [pc EXCEPT ![r] = "idle"]
  /\ scanResult' = [scanResult EXCEPT ![r] = "none"]
  /\ snapshot' = [snapshot EXCEPT ![r] = NoSnapshot]
  /\ clk' = [clk EXCEPT ![r] = <<>>]
  /\ transactItems' = [transactItems EXCEPT ![r] = <<>>]
  /\ statusCode' = [statusCode EXCEPT ![r] = 0]
  /\ writeCalls' = [writeCalls EXCEPT ![r] = 0]
  /\ issued' = issued \ {transactItems[r][i].Item.id :
                           i \in {j \in 1 .. Len(transactItems[r]) :
                                    /\ transactItems[r][j].op = "Put"
                                    /\ transactItems[r][j].Item.id \notin DOMAIN store}}
  /\ UNCHANGED <<legacy, store, now, externs>>

\* the scan that resolves with Items
ScanOk(r) == Scan(r) /\ scanResult'[r] = "items"

\* The handler invoked again and again while days pass.
NextLive ==
  \/ Scan(1)
  \/ BuildFailed(1)
  \/ Build(1)
  \/ WriteOk(1)
  \/ WriteFailed(1)
  \/ Reinvoke(1)
  \/ Tick

\* days pass, the handler runs on when it can and is started again when it
\* has returned, and scans and transactions that are tried again and again
\* go through in the end
LiveFairness ==
  /\ WF_vars(Tick)
  /\ WF_vars(BuildFailed(1))
  /\ WF_vars(Build(1))
  /\ WF_vars(Reinvoke(1))
  /\ SF_vars(ScanOk(1))
  /\ SF_vars(WriteOk(1))

SpecLive == Init /\ [][NextLive]_vars /\ LiveFairness

\* One invocation of the per-record handler of app.js while days pass, over
\* the tables of items due eight or seven days before the start.
InitLegacy ==
  /\ InitPlainTable({Active, Expired},
                           {Now0 - flagDeleteDate - 1, Now0 - flagDeleteDate},
                           {Now0 - dataDeleteDate - 1}, BOOLEAN)
  /\ InitRest

NextLegacy ==
  \/ expiredTodoQuery
  \/ expiredTodoStep
  \/ deleteTodoQuery
  \/ deleteTodoStep
  \/ Tick

SpecLegacy == InitLegacy /\ [][NextLegacy]_vars

\* ----------------------------------------------------- claims: vocabulary
\* the invocation has computed its transaction from a snapshot
Built(r) == pc[r] \in {"write", "done"} /\ scanResult[r] = "items"

\* the first reading of the clock (createExpiredTransactItems) and the last
\* (createDeleteTransactItems) of an invocation
ExpiryNow(r) == clk[r][1]

DeletionNow(r) == clk[r][Len(clk[r])]

\* Active and due at least flagDeleteDate days before the run
Expiring(todo, r) ==
  todo.status = Active /\ todo.targetAt <= ExpiryNow(r) - flagDeleteDate

HasIncomplete(todo) ==
  \E j \in 1 .. Len(todo.comment.contentList) :
    ~todo.comment.contentList[j].complete

\* positions of the transaction's writes of one kind aimed at one id
UpdatesOf(items, id) ==
  {i \in 1 .. Len(items) : items[i].op = "Update" /\ items[i].Key = id}

DeletesOf(items, id) ==
  {i \in 1 .. Len(items) : items[i].op = "Delete" /\ items[i].Key = id}

\* positions of the Puts whose item succeeds the given record (the title is
\* copied, and every record of the initial table has a title of its own)
CreatesOf(items, todo) ==
  {i \in 1 .. Len(items) : items[i].op = "Put" /\ items[i].Item.title = todo.title}

SnapshotTodos(r) == {snapshot[r].Items[i] : i \in 1 .. Len(snapshot[r].Items)}

\* C1: every Active record of the snapshot due at least expiryAgeDays before
\* the run gets an UpdateStatus(id, Expired) in the final batch, unless the
\* batch deletes the same id, in which case it holds no update for that id.
C1_ExpiredFlaggedOrDeleted ==
  \A r \in Runs : Built(r) =>
    \A todo \in SnapshotTodos(r) : Expiring(todo, r) =>
      IF DeletesOf(transactItems[r], todo.id) # {}
      THEN UpdatesOf(transactItems[r], todo.id) = {}
      ELSE \E i \in UpdatesOf(transactItems[r], todo.id) :
             transactItems[r][i].status = Expired

C1_Witness ==
  \E r \in Runs : Built(r) /\
    \E todo \in SnapshotTodos(r) :
      /\ Expiring(todo, r)
      /\ DeletesOf(transactItems[r], todo.id) # {}
      /\ UpdatesOf(transactItems[r], todo.id) = {}

\* C2: thresholds 7 and 7, the snapshot one Active record due 10 days before
\* the run with carryOver = false: the batch is exactly
\* [UpdateStatus(id, Expired)].
C2_ScenarioA ==
  \A r \in Runs :
    ( /\ Built(r)
      /\ Len(snapshot[r].Items) = 1
      /\ snapshot[r].Items[1].status = Active
      /\ snapshot[r].Items[1].targetAt = ExpiryNow(r) - 10
      /\ ~snapshot[r].Items[1].carryOver )
    => transactItems[r] =
         <<[op |-> "Update", Key |-> snapshot[r].Items[1].id, status |-> Expired]>>

\* C3: every Expired record of the snapshot last updated at least
\* deletionAgeDays before the run gets a DeleteById(id) in the final batch,
\* whatever its targetAt.
C3_ExpiredDeletedByUpdatedAt ==
  \A r \in Runs : Built(r) =>
    \A todo \in SnapshotTodos(r) :
      (todo.status = Expired /\ todo.updatedAt <= DeletionNow(r) - dataDeleteDate)
      => DeletesOf(transactItems[r], todo.id) # {}

\* C4: a stored record only moves Active -> Expired and Expired -> absent:
\* no step removes a record that is Active, and an Expired record never
\* becomes Active again.
C4_Lifecycle ==
  [][\A id \in DOMAIN store :
       /\ store[id].status = Active => id \in DOMAIN store'
       /\ (store[id].status = Expired /\ id \in DOMAIN store')
            => store'[id].status = Expired]_vars

\* the sub-items of a contentList that are not complete, in their order:
\* the k-th is the entry at the position with exactly k incomplete entries
\* up to and including it
IncompleteCount(list, j) == Cardinality({m \in 1 .. j : ~list[m].complete})

IncompleteOf(list) ==
  [k \in 1 .. IncompleteCount(list, Len(list)) |->
     list[CHOOSE j \in 1 .. Len(list) :
            ~list[j].complete /\ IncompleteCount(list, j) = k]]

\* the records of the snapshot that expire and carry unfinished sub-items over
Recurring(r) ==
  {todo \in SnapshotTodos(r) :
     Expiring(todo, r) /\ todo.carryOver /\ HasIncomplete(todo)}

\* positions of the Puts of a transaction
PutsOf(items) == {i \in 1 .. Len(items) : items[i].op = "Put"}

\* the reading of the clock taken for the Put at position i: the Puts take
\* the readings after the first in their order
PutReading(r, i) ==
  clk[r][1 + Cardinality({j \in PutsOf(transactItems[r]) : j <= i})]

\* C5: for every expiring record with carryOver = true and an incomplete
\* sub-item the batch holds exactly one CreateIfAbsent of its successor; the
\* successor's contentList is the predecessor's incomplete sub-items in
\* their order and its targetAt is the time of the run plus resetAddDays.
C5_SuccessorCreated ==
  \A r \in Runs : Built(r) =>
    \A todo \in Recurring(r) :
      /\ Cardinality(CreatesOf(transactItems[r], todo)) = 1
      /\ \A i \in CreatesOf(transactItems[r], todo) :
           /\ transactItems[r][i].Item.comment.contentList
                = IncompleteOf(todo.comment.contentList)
           /\ transactItems[r][i].Item.targetAt = PutReading(r, i) + 3
           /\ ExpiryNow(r) <= PutReading(r, i)
           /\ PutReading(r, i) <= DeletionNow(r)

C5_Witness ==
  \E r \in Runs : Built(r) /\
    \E todo \in Recurring(r) :
      /\ Len(todo.comment.contentList) = 2
      /\ todo.comment.contentList[1].complete
      /\ ~todo.comment.contentList[2].complete
      /\ CreatesOf(transactItems[r], todo) # {}

\* C6: no CreateIfAbsent for an expiring record with carryOver = false, nor
\* for one with carryOver = true whose sub-items are all complete (an empty
\* contentList included): the creates of the batch are as many as the
\* expiring records with carryOver = true and an incomplete sub-item.
C6_NoSuccessorOtherwise ==
  \A r \in Runs : Built(r) =>
    /\ \A todo \in SnapshotTodos(r) :
         (Expiring(todo, r) /\ (~todo.carryOver \/ ~HasIncomplete(todo)))
         => CreatesOf(transactItems[r], todo) = {}
    /\ Cardinality(PutsOf(transactItems[r])) = Cardinality(Recurring(r))

C6_Witness ==
  \E r \in Runs : Built(r) /\
    \E a, b \in SnapshotTodos(r) :
      /\ Expiring(a, r) /\ ~a.carryOver /\ HasIncomplete(a)
      /\ Expiring(b, r) /\ b.carryOver /\ ~HasIncomplete(b)
      /\ Len(b.comment.contentList) > 0
      /\ transactItems[r] # <<>>
      /\ PutsOf(transactItems[r]) = {}

\* C7: no record id is the target of more than one operation of the batch
\* (update, create or delete), and an id that qualifies for both the update
\* and the delete keeps the delete only.
C7_NoTargetConflict ==
  \A r \in Runs : Built(r) =>
    /\ \A i, j \in 1 .. Len(transactItems[r]) :
         i # j => TargetId(transactItems[r][i]) # TargetId(transactItems[r][j])
    /\ \A todo \in SnapshotTodos(r) :
         DeletesOf(transactItems[r], todo.id) # {}
         => UpdatesOf(transactItems[r], todo.id) = {}

C7_Witness ==
  \E r \in Runs : Built(r) /\
    \E a, b \in SnapshotTodos(r) :
      /\ a.id # b.id
      /\ Expiring(a, r) /\ DeletesOf(transactItems[r], a.id) # {}
      /\ Expiring(b, r) /\ CreatesOf(transactItems[r], b) # {}
      /\ Len(transactItems[r]) >= 3

\* C8: when the update of an expiring record is superseded by the delete of
\* the same id, the create of its successor (if one was generated) stays in
\* the batch, which is the kept updates, all creates and all deletes.
C8_CreateSurvivesSupersession ==
  \A r \in Runs : Built(r) =>
    /\ \A todo \in Recurring(r) :
         (DeletesOf(transactItems[r], todo.id) # {}
            /\ UpdatesOf(transactItems[r], todo.id) = {})
         => CreatesOf(transactItems[r], todo) # {}
    /\ Len(transactItems[r])
         = Cardinality({todo \in SnapshotTodos(r) :
                          UpdatesOf(transactItems[r], todo.id) # {}})
           + Cardinality(Recurring(r))
           + Cardinality({todo \in SnapshotTodos(r) :
                            DeletesOf(transactItems[r], todo.id) # {}})

C8_Witness ==
  \E r \in Runs : Built(r) /\
    \E todo \in Recurring(r) :
      /\ DeletesOf(transactItems[r], todo.id) # {}
      /\ UpdatesOf(transactItems[r], todo.id) = {}
      /\ CreatesOf(transactItems[r], todo) # {}

\* C9: when the scan throws or its result has no Items field the run ends
\* with statusCode 400 and submits no transaction; a result with zero items
\* is no read failure.
C9_ReadFailure ==
  \A r \in Runs :
    /\ scanResult[r] \in {"throw", "undefined"} =>
         /\ pc[r] \in {"scanned", "done"}
         /\ pc[r] = "done" => statusCode[r] = 400
         /\ writeCalls[r] = 0
         /\ transactItems[r] = <<>>
    /\ (scanResult[r] = "items" /\ snapshot[r].Items = <<>> /\ pc[r] = "done")
         => statusCode[r] = 200

C9_Witness ==
  \E r \in Runs :
    /\ pc[r] = "done" /\ scanResult[r] = "undefined" /\ statusCode[r] = 400
    /\ writeCalls[r] = 0
    /\ store # <<>>

\* a write of the invocation's transaction is refused by the table as it is
Refused(r) == ~TransactOk(store, transactItems[r])

\* C10: when the submission of the batch fails (a transport error or a
\* violated precondition) the run ends with statusCode 400, the batch is
\* submitted at most once in the run, and the table is left as it was: the
\* only steps that change the table are a submission that succeeds and the
\* producer's writes.
C10_WriteFailure ==
  /\ [](\A r \in Runs : writeCalls[r] <= 1)
  /\ [][\A r \in Runs :
          (pc[r] = "write" /\ writeCalls'[r] # writeCalls[r])
          => /\ pc'[r] = "done"
             /\ (Refused(r) \/ statusCode'[r] # 200)
                  => (statusCode'[r] = 400 /\ store' = store)]_vars
  /\ [][store' # store
          => \/ externs' # externs
             \/ \E r \in Runs : pc[r] = "write" /\ statusCode'[r] = 200]_vars

C10_Witness ==
  \E r \in Runs :
    /\ pc[r] = "done" /\ writeCalls[r] = 1 /\ statusCode[r] = 400
    /\ \E i \in PutsOf(transactItems[r]) :
         /\ transactItems[r][i].Item.id \in DOMAIN store
         /\ store[transactItems[r][i].Item.id] # transactItems[r][i].Item
    /\ \E todo \in SnapshotTodos(r) :
         todo.id \in DOMAIN store /\ store[todo.id] = todo

\* C11: an empty batch ends the run with statusCode 200 and no call of
\* transactWrite; the table is changed by the run's one submission only; a
\* run that has returned has statusCode 200 or 400, a running one neither.
C11_EmptyBatchAndFrame ==
  /\ [](\A r \in Runs :
          /\ (Built(r) /\ transactItems[r] = <<>>)
               => (pc[r] = "done" /\ statusCode[r] = 200 /\ writeCalls[r] = 0)
          /\ pc[r] = "done" <=> statusCode[r] \in {200, 400}
          /\ pc[r] # "done" => statusCode[r] = 0)
  /\ [][\A r \in Runs :
          /\ pc[r] # "write" => writeCalls'[r] = writeCalls[r]
          /\ writeCalls'[r] <= 1
          /\ pc[r] = "done" => (pc'[r] = "done" /\ statusCode'[r] = statusCode[r])]_vars
  /\ [][store' # store
          => \/ externs' = externs + 1
             \/ \E r \in Runs : /\ writeCalls'[r] = writeCalls[r] + 1
                                /\ store' = ApplyItems(store, transactItems[r])]_vars

C11_Witness ==
  \E r \in Runs :
    /\ Built(r) /\ transactItems[r] = <<>> /\ snapshot[r].Items # <<>>
    /\ pc[r] = "done" /\ statusCode[r] = 200 /\ writeCalls[r] = 0
    /\ store = [id \in 1 .. Len(snapshot[r].Items) |-> snapshot[r].Items[id]]

\* some Put of the run's batch has an id the table already holds
PutIdTaken(r) ==
  \E i \in PutsOf(transactItems[r]) : transactItems[r][i].Item.id \in DOMAIN store

\* C12: every Put of a batch carries attribute_not_exists(#id), and a
\* submission whose Put id is already in the table is rejected whole: the
\* run returns 400 and no update, create or delete of the batch is applied.
C12_CreateConditionRejects ==
  /\ [](\A r \in Runs : \A i \in PutsOf(transactItems[r]) :
          transactItems[r][i].ConditionExpression = "attribute_not_exists(#id)")
  /\ [][\A r \in Runs :
          (pc[r] = "write" /\ writeCalls'[r] # writeCalls[r] /\ PutIdTaken(r))
          => (store' = store /\ pc'[r] = "done" /\ statusCode'[r] = 400)]_vars

\* a returned run whose Put id was taken: the table still holds the other
\* writer's item under that id and every record the batch meant to delete
C12_Witness ==
  \E r \in Runs :
    /\ pc[r] = "done" /\ statusCode[r] = 400 /\ writeCalls[r] = 1
    /\ \E i \in PutsOf(transactItems[r]) :
         LET id == transactItems[r][i].Item.id
         IN  id \in DOMAIN store /\ store[id] # transactItems[r][i].Item
    /\ \E i \in 1 .. Len(transactItems[r]) :
         /\ transactItems[r][i].op = "Delete"
         /\ transactItems[r][i].Key \in DOMAIN store

\* the successors of the record with id t that the table holds: the items
\* under another id that carry its title
SuccessorsOf(t) == {id \in DOMAIN store : id # t /\ store[id].title = t}

\* the invocations that returned 200 with a batch creating a successor of t
CreatorsOf(t) ==
  {r \in Runs : /\ pc[r] = "done" /\ statusCode[r] = 200
                /\ \E i \in PutsOf(transactItems[r]) :
                     transactItems[r][i].Item.title = t}

\* C13 as stated: whatever the interleaving of the invocations, the table
\* never holds two successors of one record.
C13_OverlapOneSuccessor ==
  \A t \in UserIds : Cardinality(SuccessorsOf(t)) <= 1

\* C13: each invocation draws its own id for a successor, so the condition
\* attribute_not_exists(#id) does not stop a second, overlapping invocation:
\* the table holds at most one successor of a record per invocation that
\* returned 200 with a Put for it, each from a different invocation's batch.
C13_OneSuccessorPerRun ==
  \A t \in UserIds :
    /\ Cardinality(SuccessorsOf(t)) <= Cardinality(CreatorsOf(t))
    /\ \A id \in SuccessorsOf(t) :
         \E r \in CreatorsOf(t) : \E i \in PutsOf(transactItems[r]) :
           /\ transactItems[r][i].Item = store[id]
           /\ Cardinality(CreatesOf(transactItems[r], store[id])) = 1

\* two invocations read the same snapshot before either wrote and both
\* returned 200: two successors of one record
C13_Witness ==
  \E t \in UserIds :
    /\ Cardinality(SuccessorsOf(t)) = 2
    /\ t \notin DOMAIN store
    /\ \A r \in Runs : snapshot[r] = snapshot[1] /\ r \in CreatorsOf(t)

\* C14: the item of every Put of a batch has status Active and an id that
\* no record of the snapshot has (its predecessor included) and no other Put
\* of the batch has.
C14_SuccessorActiveFreshId ==
  \A r \in Runs : Built(r) =>
    \A i \in PutsOf(transactItems[r]) :
      LET item == transactItems[r][i].Item
      IN  /\ item.status = Active
          /\ \A todo \in SnapshotTodos(r) : todo.id # item.id
          /\ \A todo \in SnapshotTodos(r) :
               todo.title = item.title => (todo.status = Active /\ todo.id # item.id)
          /\ \A j \in PutsOf(transactItems[r]) :
               j # i => transactItems[r][j].Item.id # item.id

\* a batch with a Put, built from a snapshot that also holds a flagged
\* record with carryOver set, an incomplete sub-item and a due date as old
C14_Witness ==
  \E r \in Runs :
    /\ Built(r)
    /\ PutsOf(transactItems[r]) # {}
    /\ \E todo \in SnapshotTodos(r) :
         /\ todo.status = Expired /\ todo.carryOver /\ HasIncomplete(todo)
         /\ todo.targetAt <= ExpiryNow(r) - flagDeleteDate
         /\ CreatesOf(transactItems[r], todo) = {}

\* C15: when expiredTodo of app.js has returned without a rejected call,
\* every record its query found with status 0 and targetAt more than seven
\* days back has status 1 in the table, with carryOver set or not, and only
\* those with carryOver set and an incomplete sub-item have a successor.
C15_LegacyFlagsEveryExpired ==
  (legacy.pc = "expired" /\ ~legacy.error) =>
    \A i \in 1 .. Len(legacy.updateTodoList) :
      LET todo == legacy.updateTodoList[i]
      IN  /\ todo.id \in DOMAIN store
          /\ store[todo.id].status = Expired
          /\ SuccessorsOf(todo.id) # {} => (todo.carryOver /\ HasIncomplete(todo))

\* the place in the batch's order of the kind of a write: updates, then
\* creates, then deletes
Rank(item) == IF item.op = "Update" THEN 1 ELSE IF item.op = "Put" THEN 2 ELSE 3

\* the position in the snapshot of the record a write is about (for a Put,
\* its predecessor)
SourceIndex(r, item) ==
  CHOOSE k \in 1 .. Len(snapshot[r].Items) :
    IF item.op = "Put" THEN snapshot[r].Items[k].title = item.Item.title
    ELSE snapshot[r].Items[k].id = item.Key

\* C16: in every batch the kept updates come first, then the Puts, then the
\* Deletes, and the writes of one kind follow the order of their records in
\* the snapshot.
C16_BatchOrder ==
  \A r \in Runs : Built(r) =>
    \A i, j \in 1 .. Len(transactItems[r]) :
      i < j =>
        LET a == transactItems[r][i]
            b == transactItems[r][j]
        IN  /\ Rank(a) <= Rank(b)
            /\ Rank(a) = Rank(b) => SourceIndex(r, a) < SourceIndex(r, b)

\* two expiring records that each produce an update and a Put: the batch is
\* the two Puts followed by the two Deletes
C16_Witness ==
  \E r \in Runs :
    /\ Built(r)
    /\ Cardinality(Recurring(r)) = 2
    /\ Len(transactItems[r]) = 4
    /\ PutsOf(transactItems[r]) = {1, 2}
    /\ transactItems[r][3].op = "Delete" /\ transactItems[r][4].op = "Delete"

\* C17: a batch with a Put for the successor of a record holds exactly one
\* write aimed at that record (its Update or its Delete), and the table never
\* holds a successor of a record that is in the table with status Active.
C17_SuccessorWithRetirement ==
  /\ \A r \in Runs : Built(r) =>
       \A todo \in SnapshotTodos(r) :
         CreatesOf(transactItems[r], todo) # {} =>
           Cardinality(UpdatesOf(transactItems[r], todo.id)
                       \cup DeletesOf(transactItems[r], todo.id)) = 1
  /\ \A t \in UserIds :
       SuccessorsOf(t) # {} => ~(t \in DOMAIN store /\ store[t].status = Active)

\* a run returned 200 and left a successor in the place of its predecessor,
\* next to a record it did not touch
C17_Witness ==
  \E r \in Runs : \E t \in UserIds :
    /\ pc[r] = "done" /\ statusCode[r] = 200 /\ writeCalls[r] = 1
    /\ SuccessorsOf(t) # {} /\ t \notin DOMAIN store
    /\ \E u \in UserIds \ {t} : u \in DOMAIN store /\ store[u].status = Active

C19_SerialOneSuccessor ==
  /\ [](\A t \in UserIds :
          /\ Cardinality(SuccessorsOf(t)) <= 1
          /\ Cardinality(CreatorsOf(t)) <= 1
          /\ CreatorsOf(t) # {} => ~(t \in DOMAIN store /\ store[t].status = Active))
  /\ [][\A r \in Runs :
          (pc[r] # "done" /\ statusCode'[r] = 400) => store' = store]_vars

\* a first invocation failed at its write, a second one, started after the
\* first returned, created the one successor
C19_Witness ==
  \E t \in UserIds :
    /\ Cardinality(SuccessorsOf(t)) = 1
    /\ pc[1] = "done" /\ statusCode[1] = 400 /\ writeCalls[1] = 1
    /\ \E i \in PutsOf(transactItems[1]) : transactItems[1][i].Item.title = t
    /\ CreatorsOf(t) = {2}

\* C20: with the handler invoked again and again while days pass, and scans
\* and transactions going through in the end, every record with status
\* Active or Expired that is in the table, and is due early enough for the
\* clock of the model to reach its deletion day, is removed from the table.
C20_EventuallyRemoved ==
  \A id \in Ids :
    (/\ id \in DOMAIN store
     /\ store[id].status \in {Active, Expired}
     /\ store[id].targetAt <= MaxNow - dataDeleteDate)
    ~> (id \notin DOMAIN store)

\* the last day of the clock: a run has returned 200, every record of the
\* start is gone and a successor is what is left
C20_Witness ==
  /\ now = MaxNow
  /\ pc[1] = "done" /\ statusCode[1] = 200 /\ writeCalls[1] = 1
  /\ DOMAIN store # {}
  /\ \A id \in DOMAIN store :
       store[id].title # id /\ store[id].targetAt > MaxNow - dataDeleteDate
  /\ \E i \in 1 .. Len(transactItems[1]) :
       transactItems[1][i].op = "Delete" /\ snapshot[1].Items[1].status = Expired

=============================================================================
